---------------------------- MODULE Spec2Model ----------------------------
(***************************************************************************)
(* Robotic-arm billiards player: the obstruction detector and the direct   *)
(* shot generator (ShotPlanner.cpp), the shot selector and the program     *)
(* flow (main.cpp) and the motion layer (RobotController.cpp).             *)
(*                                                                         *)
(* Coordinates are integers.  The geometry kernel (GeometryUtils: mag,     *)
(* dis, COS_VAL) and the bank-shot generator (FlipPlanner) are not part    *)
(* of the sources at hand and are modelled from the design document.       *)
(* Quantities that are irrational in the program (a distance to a line,    *)
(* a cosine) are kept as exact integer fractions and compared exactly.     *)
(*                                                                         *)
(* Two things the sources leave open are choices of the model: the first   *)
(* component of the pair built at ShotPlanner.cpp line 60, which is        *)
(* ill-typed as written, and the rounding of the cosine of exactly         *)
(* parallel vectors of irrational length inside the missing COS_VAL.       *)
(***************************************************************************)
EXTENDS Integers, Sequences, FiniteSets

VARIABLES
    \* ---- main.cpp: the program ----
    pc,             \* position of main
    device_id,      \* "none" | "open" | "closed": the robot connection
    rc,             \* <<>> while main runs, then <<0>> or <<-1>>: what main returned
    cueball,        \* loaded cue-ball rows   (sequence of points)
    childballs,     \* loaded object balls    (sequence of points)
    holes,          \* loaded pockets         (sequence of points)
    valid_shots,    \* result of selectClearShots
    flip_shots,     \* result of evaluateFlipShots
    target_ball,    \* selected ball   (<<>> while unset)
    target_hole,    \* selected pocket (<<>> while unset)
    total_distance, \* distance handed to moveToPose / executeStrike
    hit_position,   \* the strike pose computed by main
    \* ---- the robot, as seen through HRSDK ----
    motion,         \* get_motion_state: 1 = motion complete, 2 = running
    dout,           \* digital outputs 9..16
    cmds,           \* every HRSDK command issued so far, in order
    \* ---- isPathObstructed called on its own ----
    p_args,         \* [x1, y1, x2, y2, obstacles, radius]
    p_result        \* <<>> before the call, then <<TRUE>> or <<FALSE>>

vars == <<pc, device_id, rc, cueball, childballs, holes, valid_shots,
          flip_shots, target_ball, target_hole, total_distance,
          hit_position, motion, dout, cmds, p_args, p_result>>

mainVars == <<pc, device_id, rc, cueball, childballs, holes, valid_shots,
              flip_shots, target_ball, target_hole, total_distance,
              hit_position, motion, dout, cmds>>

pathVars == <<p_args, p_result>>

-----------------------------------------------------------------------------
(* Geometry kernel (GeometryUtils, modelled from the design document)      *)

\* mag(dx, dy)^2: the squared Euclidean length.
magSq(dx, dy) == dx * dx + dy * dy

\* sqrt on the perfect squares; the table layouts keep every distance that
\* main adds up integral.
Sqrt(n) == CHOOSE r \in 0..n : r * r = n

\* mag(dx, dy) = sqrt(dx^2 + dy^2)
mag(dx, dy) == Sqrt(magSq(dx, dy))

\* mag(ax, ay) < mag(bx, by); sqrt is strictly monotone.
magLess(ax, ay, bx, by) == magSq(ax, ay) < magSq(bx, by)

\* dis(lineDx, lineDy, originX, originY, px, py): signed distance of
\* (px, py) to the line through the origin point with the given direction,
\* cross product over magnitude.  Kept as the fraction num / sqrt(denSq).
dis(dx, dy, ox, oy, px, py) ==
    [num |-> dx * (py - oy) - dy * (px - ox), denSq |-> magSq(dx, dy)]

\* std::abs(d) < r.  A zero-length direction gives 0/0, a NaN, and every
\* comparison with a NaN is false.
absBelow(d, r) ==
    /\ d.denSq > 0
    /\ d.num * d.num < r * r * d.denSq

\* COS_VAL(ax, ay, bx, by) = dot(a, b) / (|a| |b|), kept as
\* dot / sqrt(normSq), with the two squared lengths.
COS_VAL(ax, ay, bx, by) ==
    [dot |-> ax * bx + ay * by, normSq |-> magSq(ax, ay) * magSq(bx, by),
     aSq |-> magSq(ax, ay), bSq |-> magSq(bx, by)]

\* a / b < c / d for a, c >= 0 and b, d > 0, by comparing the continued
\* fractions: no product is formed.
RECURSIVE lessFrac(_, _, _, _)
lessFrac(a, b, c, d) ==
    IF a \div b # c \div d THEN a \div b < c \div d
    ELSE IF c % d = 0 THEN FALSE
    ELSE IF a % b = 0 THEN TRUE
    ELSE lessFrac(d, c % d, b, a % b)

\* cos^2 of the angle limit 110 * 3.1415926 / 180 rad
\* (0.11697775738965590995...), as its best fraction below 2^31: off by
\* less than 1e-19.
CosSqNum == 229016258
CosSqDen == 1957776103

\* std::abs(acos(c) * 180 / 3.1415926) < 110.  A zero-length vector gives
\* a NaN cosine: the comparison is false.  Otherwise the angle is below the
\* limit iff c > cos(limit), the limit's cosine being negative:
\* dot >= 0, or dot^2 / normSq < cos^2(limit).
angleBelow110(c) ==
    /\ c.normSq > 0
    /\ \/ c.dot >= 0
       \/ lessFrac(c.dot * c.dot, c.normSq, CosSqNum, CosSqDen)

isSquare(n) == \E r \in 0..n : r * r = n

\* The cosine is exactly 1 and a length is irrational: dot / (|a| |b|) in
\* floating point is 1 or a hair off, and a value above 1 makes acos a NaN.
\* Which of the two the program computes is up to the rounding inside
\* COS_VAL.
roundingDependent(c) ==
    /\ c.dot > 0
    /\ c.dot * c.dot = c.normSq
    /\ ~(isSquare(c.aSq) /\ isSquare(c.bSq))

-----------------------------------------------------------------------------
(* ShotPlanner.cpp: isPathObstructed                                       *)

\* Variant: only the end point is skipped.
isEndpointEndOnly(obs, x1, y1, x2, y2) == obs[1] = x2 /\ obs[2] = y2

\* The coincidence test of line 22: exact equality with either endpoint.
isEndpoint(obs, x1, y1, x2, y2) ==
    \/ (obs[1] = x2 /\ obs[2] = y2)
    \/ (obs[1] = x1 /\ obs[2] = y1)

\* Lines 26: the obstacle is close enough to the line.
nearLine(obs, x1, y1, x2, y2, bound_radius) ==
    absBelow(dis(x2 - x1, y2 - y1, x1, y1, obs[1], obs[2]), bound_radius)

\* Variant: mag_obs <= mag_target.
withinBoundsInclusive(obs, x1, y1, x2, y2) ==
    ~magLess(x2 - x1, y2 - y1, obs[1] - x1, obs[2] - y1)

\* Lines 27-29: mag_obs < mag_target.
withinBounds(obs, x1, y1, x2, y2) ==
    magLess(obs[1] - x1, obs[2] - y1, x2 - x1, y2 - y1)

\* The loop of lines 17-32 from obstacle i on.
RECURSIVE obstructedFrom(_, _, _, _, _, _, _)
obstructedFrom(i, x1, y1, x2, y2, obstacles, bound_radius) ==
    IF i > Len(obstacles) THEN FALSE
    ELSE IF isEndpoint(obstacles[i], x1, y1, x2, y2)
         THEN obstructedFrom(i + 1, x1, y1, x2, y2, obstacles, bound_radius)
    ELSE IF /\ nearLine(obstacles[i], x1, y1, x2, y2, bound_radius)
            /\ withinBounds(obstacles[i], x1, y1, x2, y2)
         THEN TRUE
    ELSE obstructedFrom(i + 1, x1, y1, x2, y2, obstacles, bound_radius)

isPathObstructed(x1, y1, x2, y2, obstacles, bound_radius) ==
    obstructedFrom(1, x1, y1, x2, y2, obstacles, bound_radius)

-----------------------------------------------------------------------------
(* ShotPlanner.cpp: selectClearShots                                       *)

\* The (child, hole) index pairs in the order of the nested loops of
\* lines 47-48 and 54-55: child-major, hole-minor.
loopPairs(nc, nh) ==
    [k \in 1..(nc * nh) |-> <<((k - 1) \div nh) + 1, ((k - 1) % nh) + 1>>]

\* Lines 47-53: every (child, hole) whose path is clear of the object balls.
childHoleResult(pockets, balls, bound_radius) ==
    LET clear(p) == ~isPathObstructed(balls[p[1]][1], balls[p[1]][2],
                                      pockets[p[2]][1], pockets[p[2]][2],
                                      balls, bound_radius)
        kept == SelectSeq(loopPairs(Len(balls), Len(pockets)), clear)
    IN  [k \in 1..Len(kept) |-> <<balls[kept[k][1]], pockets[kept[k][2]]>>]

\* Line 58: the strike angle of (child, hole) is below 110 degrees.
strikeAngleOk(cue, child, hole) ==
    angleBelow110(COS_VAL(child[1] - cue[1], child[2] - cue[2],
                          hole[1] - child[1], hole[2] - child[2]))

\* Line 60: emplace_back(cueballs, child).  The pair's first component is a
\* single point (a vector<double>), which the list of rows `cueballs` cannot
\* initialise: the statement is ill-typed as written and no build settles
\* what it stores.  Its two repairs: the cue ball's row first, as the
\* argument order and line 71's name "cue_ball" have it, or the child first,
\* as the match of lines 82-97 needs it.
Line60Readings == {"cue_first", "child_first"}

cueChildEntry(cueballs, child, reading) ==
    IF reading = "cue_first" THEN <<cueballs[1], child>> ELSE <<child, cueballs[1]>>

\* The (child, hole) index pairs whose cosine at line 58 depends on rounding.
roundingPairs(cueballs, pockets, balls) ==
    { p \in (1..Len(balls)) \X (1..Len(pockets)) :
        roundingDependent(COS_VAL(balls[p[1]][1] - cueballs[1][1],
                                  balls[p[1]][2] - cueballs[1][2],
                                  pockets[p[2]][1] - balls[p[1]][1],
                                  pockets[p[2]][2] - balls[p[1]][2])) }

\* Lines 54-64: one entry per (child, hole) whose child sees the cue ball
\* and whose strike angle is feasible.  nan: the pairs whose cosine came out
\* above 1, among those that depend on rounding.
cueChildResult(cueballs, pockets, balls, bound_radius, reading, nan) ==
    LET ok(p) ==
            /\ p \notin nan
            /\ ~isPathObstructed(balls[p[1]][1], balls[p[1]][2],
                                 cueballs[1][1], cueballs[1][2],
                                 balls, bound_radius)
            /\ strikeAngleOk(cueballs[1], balls[p[1]], pockets[p[2]])
        kept == SelectSeq(loopPairs(Len(balls), Len(pockets)), ok)
    IN  [k \in 1..Len(kept) |-> cueChildEntry(cueballs, balls[kept[k][1]], reading)]

\* Lines 82-89: same size and every coordinate within 1e-9 (on integer
\* coordinates: equal).
isSame(child_ball, cue_ball) ==
    /\ Len(child_ball) = Len(cue_ball)
    /\ \A i \in 1..Len(child_ball) : child_ball[i] = cue_ball[i]

\* Lines 70-99: the inner loop finds an entry whose first component matches
\* the child ball of this (child, hole).
hasMatch(child_hole, cue_child_result) ==
    \E k \in 1..Len(cue_child_result) :
        isSame(child_hole[1], cue_child_result[k][1])

\* Lines 35-103.
selectClearShots(cueballs, pockets, balls, bound_radius, reading, nan) ==
    LET child_hole_result == childHoleResult(pockets, balls, bound_radius)
        cue_child_result == cueChildResult(cueballs, pockets, balls, bound_radius,
                                           reading, nan)
        matched(ch) == hasMatch(ch, cue_child_result)
    IN  SelectSeq(child_hole_result, matched)

-----------------------------------------------------------------------------
(* Inputs of one run                                                       *)

\* Longest bank-shot list evaluateFlipShots hands back in the model.
MaxFlips == 2

\* Clearance radius main passes to the planners.
BoundRadius == 15

\* Contents of the CSV files: the cue ball, the object balls, the pockets.
TableLayouts ==
    { \* one ball straight between cue and pocket
      [cueball |-> <<(<<0, 0>>)>>, childballs |-> <<(<<100, 0>>)>>,
       holes |-> <<(<<200, 0>>)>>],
      \* the same with a second ball on the ball -> pocket line
      [cueball |-> <<(<<0, 0>>)>>, childballs |-> <<(<<100, 0>>), (<<150, 0>>)>>,
       holes |-> <<(<<200, 0>>)>>],
      \* a pocket behind the ball: strike angle of 180 degrees
      [cueball |-> <<(<<0, 0>>)>>, childballs |-> <<(<<100, 0>>)>>,
       holes |-> <<(<<-200, 0>>)>>],
      \* no object ball, no pocket
      [cueball |-> <<(<<0, 0>>)>>, childballs |-> <<>>, holes |-> <<(<<200, 0>>)>>],
      [cueball |-> <<(<<0, 0>>)>>, childballs |-> <<(<<100, 0>>)>>, holes |-> <<>>],
      \* an object ball lying on the cue ball's coordinates
      [cueball |-> <<(<<0, 0>>)>>, childballs |-> <<(<<0, 0>>), (<<50, 0>>)>>,
       holes |-> <<(<<200, 0>>), (<<0, 120>>), (<<0, -120>>)>>],
      [cueball |-> <<(<<0, 0>>)>>, childballs |-> <<(<<50, 0>>), (<<0, 0>>)>>,
       holes |-> <<(<<50, 120>>), (<<0, 120>>)>>],
      [cueball |-> <<(<<0, 0>>)>>, childballs |-> <<(<<0, 0>>), (<<50, 0>>)>>,
       holes |-> <<(<<0, 120>>), (<<50, 120>>)>>],
      \* a second ball beside the ball -> pocket line, inside and outside the radius
      [cueball |-> <<(<<0, 0>>)>>, childballs |-> <<(<<100, 0>>), (<<150, 10>>)>>,
       holes |-> <<(<<200, 0>>), (<<100, 100>>)>>],
      [cueball |-> <<(<<0, 0>>)>>, childballs |-> <<(<<100, 0>>), (<<150, 20>>)>>,
       holes |-> <<(<<200, 0>>)>>],
      \* another cue position
      [cueball |-> <<(<<50, 50>>)>>, childballs |-> <<(<<100, 50>>), (<<50, 50>>)>>,
       holes |-> <<(<<200, 50>>), (<<50, 170>>)>>],
      \* a far pocket
      [cueball |-> <<(<<0, 0>>)>>, childballs |-> <<(<<0, 0>>), (<<15, -20>>)>>,
       holes |-> <<(<<0, 460>>), (<<45, -60>>)>>],
      [cueball |-> <<(<<0, 0>>)>>, childballs |-> <<(<<0, 0>>)>>,
       holes |-> <<(<<0, 120>>)>>],
      \* an object ball lying on a pocket's coordinates
      [cueball |-> <<(<<0, 0>>)>>, childballs |-> <<(<<100, 0>>)>>,
       holes |-> <<(<<100, 0>>), (<<200, 0>>)>>],
      \* a ball whose only feasible pocket is straight ahead, at irrational
      \* distances
      [cueball |-> <<(<<0, 0>>)>>,
       childballs |-> <<(<<0, 0>>), (<<10, 15>>), (<<24, 36>>)>>,
       holes |-> <<(<<30, 45>>), (<<-120, 0>>)>>] }

\* Path lengths a bank candidate may carry.
FlipDistances == {90, 300, 450, 500}

\* FlipShot: the fields main reads (lines 71-77).
flipCandidates(balls, pockets) ==
    { [target_coords |-> balls[i], hole_coords |-> pockets[j], total_distance |-> d] :
        i \in 1..Len(balls), j \in 1..Len(pockets), d \in FlipDistances }

\* evaluateFlipShots(cue, balls, obstacles, walls, radius) (FlipPlanner, from
\* the design document): some list of single-bank candidates, each keeping
\* the unreflected coordinates of an object ball and of a pocket.  Which
\* candidates the walls permit is left open.
evaluateFlipShots(balls, pockets) ==
    UNION { [1..n -> flipCandidates(balls, pockets)] : n \in 0..MaxFlips }

-----------------------------------------------------------------------------
(* main.cpp: the shot selector                                             *)

\* std::numeric_limits<double>::max(): above every distance.
DoubleMax == 2147483647

\* Lines 51-55: the length of a direct shot.
directDist(shot, cue) ==
    mag(shot[1][1] - shot[2][1], shot[1][2] - shot[2][2])
        + mag(cue[1] - shot[1][1], cue[2] - shot[1][2])

\* Variant: dist <= min_dist, the last of the shortest shots wins.
closerOrEqual(dist, min_dist) == dist <= min_dist

\* Line 56: the comparison that replaces the best shot so far.
closer(dist, min_dist) == dist < min_dist

\* Lines 49-62: the loop over the direct shots, from shot i on.
RECURSIVE directLoop(_, _, _, _)
directLoop(i, shots, cue, acc) ==
    IF i > Len(shots) THEN acc
    ELSE LET dist == directDist(shots[i], cue)
         IN  IF closer(dist, acc.min_dist)
             THEN directLoop(i + 1, shots, cue,
                             [min_dist |-> dist, target_ball |-> shots[i][1],
                              target_hole |-> shots[i][2], total_distance |-> dist])
             ELSE directLoop(i + 1, shots, cue, acc)

selectDirect(shots, cue) ==
    directLoop(1, shots, cue,
               [min_dist |-> DoubleMax, target_ball |-> <<>>,
                target_hole |-> <<>>, total_distance |-> 0])

\* Lines 70-75: the loop over the bank shots, from shot i on.
RECURSIVE flipLoop(_, _, _)
flipLoop(i, flips, acc) ==
    IF i > Len(flips) THEN acc
    ELSE IF flips[i].total_distance < acc.best.total_distance
         THEN flipLoop(i + 1, flips,
                       [best |-> flips[i], total_distance |-> flips[i].total_distance])
         ELSE flipLoop(i + 1, flips, acc)

\* Lines 69-77: best starts as the first candidate, total_distance as it was.
selectFlip(flips, total) ==
    flipLoop(1, flips, [best |-> flips[1], total_distance |-> total])

\* Line 68 / 79: there is a bank shot to take.
haveFlipShot(flips) == flips # <<>>

\* Lines 88-117: the strike pose.  rel_dis = 0 makes every component a NaN.
hitPose(ball, hole) ==
    [defined |-> magSq(hole[1] - ball[1], hole[2] - ball[2]) # 0,
     facing |-> IF hole[1] - ball[1] > 0 THEN "right" ELSE "left"]

-----------------------------------------------------------------------------
(* RobotController.cpp: the commands sent through HRSDK                    *)

\* One HRSDK command as logged: idle tells whether the robot reported motion
\* complete (get_motion_state = 1) at the moment the command was issued.
command(op, idx, val) == [op |-> op, idx |-> idx, val |-> val, idle |-> motion = 1]

\* set_digital_output(device_id, idx, val) for one list of (idx, val) writes.
RECURSIVE applyWrites(_, _)
applyWrites(writes, outputs) ==
    IF writes = <<>> THEN outputs
    ELSE applyWrites(Tail(writes), [outputs EXCEPT ![Head(writes)[1]] = Head(writes)[2]])

\* Seven writes, outputs 15 down to 9, only output `on` true.
pattern(on) == [k \in 1..7 |-> <<16 - k, (16 - k) = on>>]

\* Lines 44-50: every intensity output is first set true.
presetWrites == [k \in 1..7 |-> <<16 - k, TRUE>>]

\* Lines 54-81: the first if / else-if chain.
firstChain(distance) ==
    IF distance <= 100 THEN pattern(15)
    ELSE IF distance >= 100 /\ distance < 150 THEN pattern(14)
    ELSE IF distance >= 150 /\ distance < 175 THEN pattern(13)
    ELSE <<>>

\* Lines 82-122: the second chain; its else branch only prints.
secondChain(distance) ==
    IF distance >= 175 /\ distance < 200 THEN pattern(13)
    ELSE IF distance >= 200 /\ distance < 250 THEN pattern(13)
    ELSE IF distance >= 250 /\ distance < 350 THEN pattern(12)
    ELSE IF distance >= 350 /\ distance < 450 THEN pattern(10)
    ELSE <<>>

\* Lines 44-122: all the intensity writes of executeStrike, in order.
intensityWrites(distance) ==
    presetWrites \o firstChain(distance) \o secondChain(distance)

\* Variant: wait() returns whatever the motion state.
motionCompleteOrRunning(state) == state \in {1, 2}

\* wait(): the poll of line 20 lets the caller go on.
motionComplete(state) == state = 1

\* Where each wait() returns to.
afterWait ==
    [wait_ptp |-> "lin_pos", wait_lin |-> "intensity",
     wait_strike |-> "ptp_axis", wait_home |-> "disconnect"]

-----------------------------------------------------------------------------
(* The program                                                             *)

MainInit ==
    /\ pc = "open_connection"
    /\ device_id = "none"
    /\ rc = <<>>
    /\ cueball = <<>>
    /\ childballs = <<>>
    /\ holes = <<>>
    /\ valid_shots = <<>>
    /\ flip_shots = <<>>
    /\ target_ball = <<>>
    /\ target_hole = <<>>
    /\ total_distance = 0
    /\ hit_position = [defined |-> FALSE, facing |-> "none"]
    /\ motion = 1
    /\ dout = [k \in 9..16 |-> FALSE]
    /\ cmds = <<>>

PathIdle ==
    /\ p_args = [x1 |-> 0, y1 |-> 0, x2 |-> 0, y2 |-> 0,
                 obstacles |-> <<>>, bound_radius |-> 0]
    /\ p_result = <<>>

Init == MainInit /\ PathIdle

\* main.cpp 28-32: open_connection succeeds, or fails and main returns -1.
OpenConnection ==
    /\ pc = "open_connection"
    /\ \/ /\ device_id' = "open"
          /\ pc' = "load"
          /\ rc' = rc
       \/ /\ device_id' = device_id
          /\ pc' = "done"
          /\ rc' = <<-1>>
    /\ UNCHANGED <<cueball, childballs, holes, valid_shots, flip_shots,
                   target_ball, target_hole, total_distance, hit_position,
                   motion, dout, cmds, pathVars>>

\* main.cpp 35-39: the CSV files are read.
LoadCSV ==
    /\ pc = "load"
    /\ \E t \in TableLayouts :
          /\ cueball' = t.cueball
          /\ childballs' = t.childballs
          /\ holes' = t.holes
    /\ pc' = "plan"
    /\ UNCHANGED <<device_id, rc, valid_shots, flip_shots, target_ball,
                   target_hole, total_distance, hit_position, motion, dout,
                   cmds, pathVars>>

\* main.cpp 42: the direct shots.
PlanDirect ==
    /\ pc = "plan"
    /\ \E reading \in Line60Readings,
          nan \in SUBSET roundingPairs(cueball, holes, childballs) :
          valid_shots' = selectClearShots(cueball, holes, childballs, BoundRadius,
                                          reading, nan)
    /\ pc' = "select"
    /\ UNCHANGED <<device_id, rc, cueball, childballs, holes, flip_shots,
                   target_ball, target_hole, total_distance, hit_position,
                   motion, dout, cmds, pathVars>>

\* main.cpp 48-63: the shortest direct shot.
SelectDirectShot ==
    /\ pc = "select"
    /\ valid_shots # <<>>
    /\ LET sel == selectDirect(valid_shots, cueball[1])
       IN  /\ target_ball' = sel.target_ball
           /\ target_hole' = sel.target_hole
           /\ total_distance' = sel.total_distance
    /\ pc' = "pose"
    /\ UNCHANGED <<device_id, rc, cueball, childballs, holes, valid_shots,
                   flip_shots, hit_position, motion, dout, cmds, pathVars>>

\* main.cpp 64-66: no direct shot, the bank shots are evaluated.
EvaluateFlipShots ==
    /\ pc = "select"
    /\ valid_shots = <<>>
    /\ flip_shots' \in evaluateFlipShots(childballs, holes)
    /\ pc' = "flip"
    /\ UNCHANGED <<device_id, rc, cueball, childballs, holes, valid_shots,
                   target_ball, target_hole, total_distance, hit_position,
                   motion, dout, cmds, pathVars>>

\* main.cpp 68-78: the shortest bank shot.
SelectFlipShot ==
    /\ pc = "flip"
    /\ haveFlipShot(flip_shots)
    /\ LET sel == selectFlip(flip_shots, total_distance)
       IN  /\ target_ball' = sel.best.target_coords
           /\ target_hole' = sel.best.hole_coords
           /\ total_distance' = sel.total_distance
    /\ pc' = "pose"
    /\ UNCHANGED <<device_id, rc, cueball, childballs, holes, valid_shots,
                   flip_shots, hit_position, motion, dout, cmds, pathVars>>

\* Variant: the failure is reported but main does not return.
NoShotFallsThrough ==
    /\ pc = "flip"
    /\ ~haveFlipShot(flip_shots)
    /\ pc' = "ptp_pos"
    /\ UNCHANGED <<device_id, rc, cueball, childballs, holes, valid_shots,
                   flip_shots, target_ball, target_hole, total_distance,
                   hit_position, motion, dout, cmds, pathVars>>

\* main.cpp 79-82: no shot at all, main returns -1.
NoShot ==
    /\ pc = "flip"
    /\ ~haveFlipShot(flip_shots)
    /\ rc' = <<-1>>
    /\ pc' = "done"
    /\ UNCHANGED <<device_id, cueball, childballs, holes, valid_shots,
                   flip_shots, target_ball, target_hole, total_distance,
                   hit_position, motion, dout, cmds, pathVars>>

\* main.cpp 85-117: the strike pose.
ComputePose ==
    /\ pc = "pose"
    /\ hit_position' = hitPose(target_ball, target_hole)
    /\ pc' = "ptp_pos"
    /\ UNCHANGED <<device_id, rc, cueball, childballs, holes, valid_shots,
                   flip_shots, target_ball, target_hole, total_distance,
                   motion, dout, cmds, pathVars>>

\* A motion command: once HRSDK has accepted it the robot reports a motion
\* state other than 1 until the motion is complete.
Motion(at, op, next) ==
    /\ pc = at
    /\ cmds' = Append(cmds, command(op, 0, FALSE))
    /\ motion' = 2
    /\ pc' = next
    /\ UNCHANGED <<device_id, rc, cueball, childballs, holes, valid_shots,
                   flip_shots, target_ball, target_hole, total_distance,
                   hit_position, dout, pathVars>>

\* RobotController.cpp 35: ptp_pos.
PtpPos == Motion("ptp_pos", "ptp_pos", "wait_ptp")

\* RobotController.cpp 38: lin_pos.
LinPos == Motion("lin_pos", "lin_pos", "wait_lin")

\* RobotController.cpp 135: ptp_axis to the home pose.
PtpAxis == Motion("ptp_axis", "ptp_axis", "wait_home")

\* RobotController.cpp 18-22: wait() returns once the robot reports state 1.
Wait ==
    /\ pc \in DOMAIN afterWait
    /\ motionComplete(motion)
    /\ pc' = afterWait[pc]
    /\ UNCHANGED <<device_id, rc, cueball, childballs, holes, valid_shots,
                   flip_shots, target_ball, target_hole, total_distance,
                   hit_position, motion, dout, cmds, pathVars>>

\* The robot finishes the motion it is running.
RobotMotionDone ==
    /\ motion = 2
    /\ motion' = 1
    /\ UNCHANGED <<pc, device_id, rc, cueball, childballs, holes, valid_shots,
                   flip_shots, target_ball, target_hole, total_distance,
                   hit_position, dout, cmds, pathVars>>

\* RobotController.cpp 44-122: the intensity outputs.
SetIntensity ==
    /\ pc = "intensity"
    /\ LET writes == intensityWrites(total_distance)
       IN  /\ dout' = applyWrites(writes, dout)
           /\ cmds' = cmds \o [k \in 1..Len(writes) |->
                                  command("set_digital_output", writes[k][1], writes[k][2])]
    /\ pc' = "trigger_1"
    /\ UNCHANGED <<device_id, rc, cueball, childballs, holes, valid_shots,
                   flip_shots, target_ball, target_hole, total_distance,
                   hit_position, motion, pathVars>>

\* One write of the trigger output 16.
Trigger(at, val, next) ==
    /\ pc = at
    /\ dout' = [dout EXCEPT ![16] = val]
    /\ cmds' = Append(cmds, command("set_digital_output", 16, val))
    /\ pc' = next
    /\ UNCHANGED <<device_id, rc, cueball, childballs, holes, valid_shots,
                   flip_shots, target_ball, target_hole, total_distance,
                   hit_position, motion, pathVars>>

\* RobotController.cpp 125, 127, 129.
TriggerFirst == Trigger("trigger_1", FALSE, "trigger_2")
TriggerPulse == Trigger("trigger_2", TRUE, "trigger_3")
TriggerOff == Trigger("trigger_3", FALSE, "wait_strike")

\* main.cpp 123-124: disconnect, main returns 0.
Disconnect ==
    /\ pc = "disconnect"
    /\ device_id' = "closed"
    /\ cmds' = Append(cmds, command("disconnect", 0, FALSE))
    /\ rc' = <<0>>
    /\ pc' = "done"
    /\ UNCHANGED <<cueball, childballs, holes, valid_shots, flip_shots,
                   target_ball, target_hole, total_distance, hit_position,
                   motion, dout, pathVars>>

Next ==
    \/ OpenConnection
    \/ LoadCSV
    \/ PlanDirect
    \/ SelectDirectShot
    \/ EvaluateFlipShots
    \/ SelectFlipShot
    \/ NoShot
    \/ ComputePose
    \/ PtpPos
    \/ LinPos
    \/ PtpAxis
    \/ Wait
    \/ RobotMotionDone
    \/ SetIntensity
    \/ TriggerFirst
    \/ TriggerPulse
    \/ TriggerOff
    \/ Disconnect

Spec == Init /\ [][Next]_vars

-----------------------------------------------------------------------------
(* isPathObstructed called on its own, over a grid of arguments            *)

\* Longest obstacle list tried.
MaxObstacles == 2

PathEnds == {<<0, 0>>, <<100, 0>>, <<0, 100>>}

ObstaclePoints ==
    {<<0, 0>>, <<100, 0>>, <<50, 0>>, <<50, 10>>, <<50, 20>>,
     <<-50, 0>>, <<-100, 0>>, <<150, 0>>, <<-150, 10>>}

Radii == {10, 15}

ObstacleLists == UNION { [1..n -> ObstaclePoints] : n \in 0..MaxObstacles }

PathInit ==
    /\ MainInit
    /\ p_result = <<>>
    /\ \E s \in PathEnds, e \in PathEnds, r \in Radii, o \in ObstacleLists :
          p_args = [x1 |-> s[1], y1 |-> s[2], x2 |-> e[1], y2 |-> e[2],
                    obstacles |-> o, bound_radius |-> r]

\* One call of isPathObstructed.
CallIsPathObstructed ==
    /\ p_result = <<>>
    /\ p_result' = <<isPathObstructed(p_args.x1, p_args.y1, p_args.x2, p_args.y2,
                                      p_args.obstacles, p_args.bound_radius)>>
    /\ UNCHANGED <<p_args, mainVars>>

PathNext == CallIsPathObstructed

SpecPath == PathInit /\ [][PathNext]_vars

-----------------------------------------------------------------------------
(* Properties of isPathObstructed (checked under SpecPath)                 *)

PathCalled == p_result # <<>>
PathResult == p_result[1]
PStart == <<p_args.x1, p_args.y1>>
PEnd == <<p_args.x2, p_args.y2>>
PLenSq == magSq(p_args.x2 - p_args.x1, p_args.y2 - p_args.y1)

\* cross product and dot product of (obstacle - start) with (end - start)
PCross(o) == (p_args.x2 - p_args.x1) * (o[2] - p_args.y1)
                 - (p_args.y2 - p_args.y1) * (o[1] - p_args.x1)
PDot(o) == (p_args.x2 - p_args.x1) * (o[1] - p_args.x1)
               + (p_args.y2 - p_args.y1) * (o[2] - p_args.y1)

\* |perpendicular distance of o to the line| < radius
PWithinRadius(o) ==
    /\ PLenSq > 0
    /\ PCross(o) * PCross(o) < p_args.bound_radius * p_args.bound_radius * PLenSq

\* the projection of o onto the line falls between start and end
PProjectsBetween(o) == PDot(o) >= 0 /\ PDot(o) <= PLenSq

\* o is closer to start than end is
PCloserThanEnd(o) == magSq(o[1] - p_args.x1, o[2] - p_args.y1) < PLenSq

PObstacle(i) == p_args.obstacles[i]
PIndices == 1..Len(p_args.obstacles)

\* C5 as stated: the path is reported clear whenever no obstacle is both
\* within radius of the line and projects between the two endpoints.
C5_Original ==
    (PathCalled /\ ~\E i \in PIndices :
                       PWithinRadius(PObstacle(i)) /\ PProjectsBetween(PObstacle(i)))
        => PathResult = FALSE

\* C5 amended: the path is reported clear whenever no obstacle is both
\* strictly within radius of the line and closer to start than end is; in
\* particular when every obstacle projects beyond end.
C5_ClearWhenNoCloseObstacle ==
    /\ (PathCalled /\ ~\E i \in PIndices :
                          PWithinRadius(PObstacle(i)) /\ PCloserThanEnd(PObstacle(i)))
           => PathResult = FALSE
    /\ (PathCalled /\ \A i \in PIndices : PDot(PObstacle(i)) > PLenSq)
           => PathResult = FALSE

\* A clear path with an obstacle on the line beyond end, and none closer.
C5_Witness ==
    /\ PathCalled
    /\ PathResult = FALSE
    /\ PLenSq > 0
    /\ \E i \in PIndices : PWithinRadius(PObstacle(i)) /\ PDot(PObstacle(i)) > PLenSq
    /\ \E i \in PIndices : PWithinRadius(PObstacle(i)) /\ PDot(PObstacle(i)) < 0

\* C6: the path is reported obstructed iff some obstacle that is not exactly
\* at start or at end is strictly within radius of the line and strictly
\* closer to start than end is; obstacles at the endpoints never obstruct.
C6_ObstructedIff ==
    PathCalled =>
        /\ PathResult =
              (\E i \in PIndices :
                   /\ PObstacle(i) # PStart
                   /\ PObstacle(i) # PEnd
                   /\ PWithinRadius(PObstacle(i))
                   /\ PCloserThanEnd(PObstacle(i)))
        /\ (\A i \in PIndices : PObstacle(i) \in {PStart, PEnd}) => PathResult = FALSE

\* An obstructed path whose first obstacle sits on start: the scan went on
\* past it and found the real obstruction.
C6_Witness ==
    /\ PathCalled
    /\ PathResult = TRUE
    /\ Len(p_args.obstacles) = 2
    /\ PObstacle(1) = PStart
    /\ PObstacle(2) \notin {PStart, PEnd}

-----------------------------------------------------------------------------
(* Properties of the program (checked under Spec)                          *)

\* selectClearShots has returned.
Planned == pc \notin {"open_connection", "load", "plan"}

\* A shot has been selected and handed on towards the motion layer.
ShotSelected == pc \notin {"open_connection", "load", "plan", "select", "flip"}
                    /\ rc # <<-1>>

Range(seq) == {seq[i] : i \in 1..Len(seq)}

\* The path between two points is clear of the object balls.
ClearPath(a, b) ==
    ~isPathObstructed(a[1], a[2], b[1], b[2], childballs, BoundRadius)

\* C1: selectClearShots returns exactly the pairs (c, h) with c -> h clear
\* and, for the same ball c, c -> cue clear and the strike angle of (c, h')
\* below 110 degrees for some pocket h'; cue (0,0), ball (100,0), pocket
\* (200,0) yields the pair ((100,0), (200,0)).
C1_ExactlyTheFeasiblePairs ==
    Planned =>
        /\ Range(valid_shots) =
              { <<c, h>> \in Range(childballs) \X Range(holes) :
                    /\ ClearPath(c, h)
                    /\ ClearPath(c, cueball[1])
                    /\ \E h2 \in Range(holes) : strikeAngleOk(cueball[1], c, h2) }
        /\ ( /\ cueball = <<(<<0, 0>>)>>
             /\ childballs = <<(<<100, 0>>)>>
             /\ holes = <<(<<200, 0>>)>> )
              => <<(<<100, 0>>), (<<200, 0>>)>> \in Range(valid_shots)

\* The least total_distance over the bank list.
MinFlipDistance ==
    CHOOSE d \in {f.total_distance : f \in Range(flip_shots)} :
        \A f \in Range(flip_shots) : d <= f.total_distance

\* C2: with no direct shot and some bank shot, the distance handed to the
\* motion layer is the least total_distance of the bank list.
C2_BankDistanceHandedOn ==
    (ShotSelected /\ valid_shots = <<>> /\ flip_shots # <<>>)
        => total_distance = MinFlipDistance

IsMotionOrOutput(c) == c.op \in {"ptp_pos", "lin_pos", "ptp_axis", "set_digital_output"}

\* C3: with both lists empty the run ends in failure and never issues a
\* motion command or a digital-output write.
C3_NoShotNoHardware ==
    (pc \notin {"open_connection", "load", "plan", "select"}
         /\ valid_shots = <<>> /\ flip_shots = <<>>)
        => /\ pc \in {"flip", "done"}
           /\ pc = "done" => rc = <<-1>>
           /\ \A k \in 1..Len(cmds) : ~IsMotionOrOutput(cmds[k])
           /\ dout = [k \in 9..16 |-> FALSE]
           /\ motion = 1

\* The run that connected, found object balls and pockets but no shot.
C3_Witness ==
    /\ pc = "done"
    /\ device_id = "open"
    /\ childballs # <<>>
    /\ holes # <<>>
    /\ valid_shots = <<>>
    /\ flip_shots = <<>>

\* |cue -> ball| + |ball -> pocket| of a direct shot.
DirectLength(shot) ==
    Sqrt(magSq(cueball[1][1] - shot[1][1], cueball[1][2] - shot[1][2]))
        + Sqrt(magSq(shot[1][1] - shot[2][1], shot[1][2] - shot[2][2]))

\* i is the first index of least value in a list of lengths.
FirstLeast(i, lens) ==
    /\ \A j \in DOMAIN lens : lens[i] <= lens[j]
    /\ \A j \in DOMAIN lens : j < i => lens[j] > lens[i]

\* C4: bank shots are evaluated only when there is no direct shot; the
\* selected candidate is the first one of least totalDistance in its list;
\* a direct shot's totalDistance is |cue -> ball| + |ball -> pocket|.
C4_FirstShortestSelected ==
    /\ (pc = "flip" \/ flip_shots # <<>>) => valid_shots = <<>>
    /\ (ShotSelected /\ valid_shots # <<>>) =>
           \E i \in 1..Len(valid_shots) :
               /\ FirstLeast(i, [k \in 1..Len(valid_shots) |-> DirectLength(valid_shots[k])])
               /\ target_ball = valid_shots[i][1]
               /\ target_hole = valid_shots[i][2]
               /\ total_distance = DirectLength(valid_shots[i])
    /\ (ShotSelected /\ valid_shots = <<>>) =>
           \E i \in 1..Len(flip_shots) :
               /\ FirstLeast(i, [k \in 1..Len(flip_shots) |-> flip_shots[k].total_distance])
               /\ target_ball = flip_shots[i].target_coords
               /\ target_hole = flip_shots[i].hole_coords

\* A direct shot selected among two of the same least length.
C4_Witness ==
    /\ pc = "pose"
    /\ Len(valid_shots) >= 2
    /\ \E i, j \in 1..Len(valid_shots) :
          /\ i < j
          /\ valid_shots[i] # valid_shots[j]
          /\ DirectLength(valid_shots[i]) = DirectLength(valid_shots[j])
          /\ total_distance = DirectLength(valid_shots[i])

\* C7: no returned shot has its ball on the cue ball or on its pocket.
C7_NoDegenerateShot ==
    Planned =>
        \A k \in 1..Len(valid_shots) :
            /\ valid_shots[k][1] # cueball[1]
            /\ valid_shots[k][1] # valid_shots[k][2]

\* Place of a command in the strike sequence.
Phase(c) ==
    CASE c.op = "ptp_pos" -> 1
      [] c.op = "lin_pos" -> 2
      [] c.op = "set_digital_output" /\ c.idx \in 9..15 -> 3
      [] c.op = "set_digital_output" /\ c.idx = 16 -> 4
      [] c.op = "ptp_axis" -> 5
      [] c.op = "disconnect" -> 6
      [] OTHER -> 0

TriggerValues == [k \in 1..3 |-> (k = 2)]

PhaseIndices(n) == {k \in 1..Len(cmds) : Phase(cmds[k]) = n}

\* C8: the commands go out in the order ptp_pos, lin_pos, intensity
\* outputs, trigger pulse (false, true, false) on output 16, ptp_axis,
\* disconnect; every command after the first is issued while the robot
\* reports motion complete; a run that returns 0 has issued them all.
C8_CommandOrder ==
    /\ \A k \in 1..Len(cmds) : Phase(cmds[k]) \in 1..6
    /\ \A j, k \in 1..Len(cmds) : j < k => Phase(cmds[j]) <= Phase(cmds[k])
    /\ \A n \in {1, 2, 5, 6} : Cardinality(PhaseIndices(n)) <= 1
    /\ \A k \in 1..Len(cmds) :
           Phase(cmds[k]) > 1 => PhaseIndices(Phase(cmds[k]) - 1) # {}
    /\ Cardinality(PhaseIndices(4)) <= 3
    /\ \A k \in PhaseIndices(4) :
           cmds[k].val = TriggerValues[Cardinality({j \in PhaseIndices(4) : j <= k})]
    /\ \A k \in PhaseIndices(5) : Cardinality(PhaseIndices(4)) = 3
    /\ \A k \in 1..Len(cmds) : cmds[k].idle
    /\ dout[16] => motion = 1
    /\ rc = <<0>> => (PhaseIndices(6) # {} /\ device_id = "closed")
    /\ PhaseIndices(6) # {} => pc = "done"

\* A run that selected a shot and returned 0.
C8_Witness ==
    /\ pc = "done"
    /\ rc = <<0>>
    /\ Len(cmds) >= 14
    /\ target_ball # <<>>

\* C9: when the trigger output is first written exactly one of the
\* intensity outputs 9 to 15 is on.
C9_OneIntensityOutput ==
    pc \in {"trigger_1", "trigger_2"} => Cardinality({k \in 9..15 : dout[k]}) = 1

\* C10: a run that opened the connection has disconnected by the time main
\* returns.
C10_DisconnectBeforeReturn ==
    (pc = "done" /\ device_id # "none") => device_id = "closed"

=============================================================================
